---- MODULE Spec2Model ----
(***************************************************************************)
(* Model of the range-query client of client.go: NewClient, the retrying   *)
(* query (caller frontend raced against a background goroutine through a   *)
(* one-slot channel) and getFromRangeServer (server selection, GET/PUT     *)
(* choice, the two local tries).  The HTTP transport (Doer), the caller's  *)
(* context and other queries sharing the rotation cursor are environment.  *)
(***************************************************************************)
EXTENDS Integers, Sequences, FiniteSets, TLC

(* ---------------------------- bounds ---------------------------------- *)
MaxRetryCount == 2      \* largest Config.RetryCount tried
MaxOtherNext  == 1      \* Next() calls made by other in-flight queries

(* ----------------------- program constants ---------------------------- *)
defaultQueryLengthThreshold == 4096
StatusOK                  == 200
StatusMethodNotAllowed    == 405
StatusRequestURITooLong   == 414
StatusInternalServerError == 500
MethodGet == "GET"
MethodPut == "PUT"

(* ------------------------- input domains ------------------------------ *)
\* Server lists a Config may carry (addresses are host:port strings).
ServerLists == { <<>>, <<"r1:80">>, <<"r1:80", "r22:80">> }

\* len(address)
AddrLen(a) == CASE a = "r1:80" -> 5 [] a = "r22:80" -> 6 [] OTHER -> 0

\* A range expression, kept as the number of bytes url.QueryEscape leaves
\* alone (or maps to one byte) and the number it turns into %XX.
Expressions == { [plain |-> 4,    special |-> 0],
                 [plain |-> 1000, special |-> 1024] }

\* Config.RetryPause: negative, zero, positive (time is not modelled).
RetryPauses == {-1, 0, 1}

Callbacks == {"default", "always", "never"}

Messages == {"bad syntax", "no cluster"}
Bodies   == {"a b c", "x"}

Configs == [Servers : ServerLists,
            RetryCount : -1 .. MaxRetryCount,
            RetryPause : RetryPauses,
            RetryCallback : Callbacks]

(* ----------------------------- errors --------------------------------- *)
NoErr             == [kind |-> "nil", code |-> 0, msg |-> ""]
ErrStatusNotOK(c) == [kind |-> "StatusNotOK", code |-> c, msg |-> ""]
ErrRangeException(m) == [kind |-> "RangeException", code |-> 0, msg |-> m]
ErrCtx            == [kind |-> "Canceled", code |-> 0, msg |-> ""]
ErrTransport      == [kind |-> "Transport", code |-> 0, msg |-> ""]
ErrRead           == [kind |-> "Read", code |-> 0, msg |-> ""]
ErrClose          == [kind |-> "Close", code |-> 0, msg |-> ""]

NoBuf == "nil"

\* What httpClient.Do can return: an error, or a response.
NoResponse == [status |-> 0, exception |-> "", body |-> NoBuf, rerr |-> FALSE, cerr |-> FALSE]
Responses ==
    [status : {StatusOK}, exception : {""} \cup Messages, body : Bodies,
     rerr : {FALSE}, cerr : {FALSE}]
    \cup
    [status : {StatusOK}, exception : {""}, body : {"x"},
     rerr : BOOLEAN, cerr : BOOLEAN]
    \cup
    [status : {StatusMethodNotAllowed, StatusRequestURITooLong, StatusInternalServerError},
     exception : {""}, body : {"x"}, rerr : {FALSE}, cerr : {FALSE}]

DoResults == [err : {ErrTransport}, response : {NoResponse}]
             \cup [err : {NoErr}, response : Responses]

VARIABLES
    config,        \* the Config handed to NewClient
    client,        \* "none" | "ok" | "error": outcome of NewClient
    cursor,        \* roundRobinStrings position
    expression,    \* the expression of the logical query
    ctxDone,       \* ctx.Done() is closed
    callerPc,      \* "new" | "ready" | "select" | "parked" | "returned" | "failed"
    callerRes,     \* what query returned: [r, e]
    ch,            \* the buffered channel (capacity 1)
    gpc,           \* position of the goroutine
    attempts,      \* query: attempts
    res,           \* query: buf, err of the last getFromRangeServer
    endpoint,      \* getFromRangeServer: server address in endpoint
    uriLen,        \* getFromRangeServer: len(uri)
    method,        \* getFromRangeServer: method
    triesRemaining,\* getFromRangeServer: triesRemaining
    herr,          \* getFromRangeServer: herr
    request,       \* the request handed to httpClient.Do, <<>> if none
    hist           \* observation record (counters and the tries of the invocation)

vars == <<config, client, cursor, expression, ctxDone, callerPc, callerRes, ch,
          gpc, attempts, res, endpoint, uriLen, method, triesRemaining, herr,
          request, hist>>

callerVars == <<callerPc, callerRes>>
localVars  == <<endpoint, uriLen, method, triesRemaining, herr>>

NoResult == [r |-> NoBuf, e |-> NoErr]
NoRes    == [buf |-> NoBuf, err |-> NoErr]

hist0 == [nextCalls |-> 0,      \* Next() calls of this query
          invocations |-> 0,    \* getFromRangeServer calls
          requests |-> 0,       \* httpClient.Do calls
          responses |-> 0,      \* httpClient.Do returns
          all500 |-> TRUE,      \* every Do so far returned a 500 response
          tries |-> <<>>,       \* requests sent by the current invocation
          answers |-> <<>>,     \* what Do returned for them
          servers |-> <<>>,     \* address returned by each Next() of this query
          callbackCalls |-> 0,  \* retryCallback calls
          pauses |-> 0,         \* time.Sleep calls
          otherNext |-> 0,      \* Next() calls of other queries
          cancelInFlight |-> FALSE, \* ctx concluded while a Do was outstanding
          cancelReturned |-> FALSE, \* an invocation returned ctx.Err()
          sent |-> <<>>,        \* values sent on ch
          prevMethod |-> "",    \* method at the end of the previous invocation
          cancelInWindow |-> FALSE, \* ctx concluded between a check and its send
          afterCancel |-> 0,    \* Do calls started with ctx concluded
          open |-> 0,           \* bodies of this invocation not closed
          cbBad |-> FALSE]      \* retryCallback got a nil error or no budget

Init ==
    /\ config \in Configs
    /\ client = "none"
    /\ cursor = 0
    /\ expression \in Expressions
    /\ ctxDone = FALSE
    /\ callerPc = "new"
    /\ callerRes = NoResult
    /\ ch = <<>>
    /\ gpc = "idle"
    /\ attempts = 0
    /\ res = NoRes
    /\ endpoint = ""
    /\ uriLen = 0
    /\ method = ""
    /\ triesRemaining = 0
    /\ herr = NoErr
    /\ request = <<>>
    /\ hist = hist0

(* --------------------------- NewClient -------------------------------- *)
\* newRoundRobinStrings fails on an empty list.
newRoundRobinStringsFails(servers) == Len(servers) = 0

\* Variant: the RetryPause check (lines 69-71) is missing.
NewClientFails_NoPauseCheck(cfg) ==
    \/ cfg.RetryCount < 0
    \/ newRoundRobinStringsFails(cfg.Servers)

NewClientFails(cfg) ==
    \/ cfg.RetryCount < 0
    \/ cfg.RetryPause < 0
    \/ newRoundRobinStringsFails(cfg.Servers)

NewClient ==
    /\ callerPc = "new"
    /\ IF NewClientFails(config)
         THEN client' = "error" /\ callerPc' = "failed"
         ELSE client' = "ok" /\ callerPc' = "ready"
    /\ UNCHANGED <<config, cursor, expression, ctxDone, callerRes, ch, gpc,
                   attempts, res, localVars, request, hist>>

retryCount == config.RetryCount
retryPause == config.RetryPause

\* makeRetryCallback(len(servers)): the default policy.
defaultRetryCallback(err) == err.kind \notin {"RangeException", "Canceled"}

retryCallback(err) ==
    CASE config.RetryCallback = "default" -> defaultRetryCallback(err)
      [] config.RetryCallback = "always"  -> TRUE
      [] OTHER                            -> FALSE

(* ------------------------ roundRobinStrings --------------------------- *)
NextCursor(c) == (c + 1) % Len(config.Servers)
NextAddress(c) == config.Servers[c + 1]

\* Another in-flight query of the same client calls servers.Next().
OtherNext ==
    /\ client = "ok"
    /\ hist.otherNext < MaxOtherNext
    /\ cursor' = NextCursor(cursor)
    /\ hist' = [hist EXCEPT !.otherNext = @ + 1]
    /\ UNCHANGED <<config, client, expression, ctxDone, callerVars, ch, gpc,
                   attempts, res, localVars, request>>

(* ----------------------------- context -------------------------------- *)
\* The caller's context concludes (cancel or deadline).  A caller parked in
\* the select is woken on the ctx.Done() case.
Cancel ==
    /\ client = "ok"
    /\ ~ctxDone
    /\ ctxDone' = TRUE
    /\ IF callerPc = "parked"
         THEN callerPc' = "returned" /\ callerRes' = [r |-> NoBuf, e |-> ErrCtx]
         ELSE UNCHANGED callerVars
    /\ hist' = [hist EXCEPT !.cancelInFlight = @ \/ (gpc = "inflight"),
                            !.cancelInWindow = @ \/ (gpc = "send")]
    /\ UNCHANGED <<config, client, cursor, expression, ch, gpc, attempts, res,
                   localVars, request>>

(* ------------------------------ query --------------------------------- *)
\* Lines 278-299: make the channel and spawn the goroutine.
query_spawn ==
    /\ callerPc = "ready"
    /\ callerPc' = "select"
    /\ gpc' = "call"
    /\ ch' = <<>>
    /\ attempts' = 0
    /\ UNCHANGED <<config, client, cursor, expression, ctxDone, callerRes, res,
                   localVars, request, hist>>

\* Lines 303-308: the caller reaches the select.  With both cases ready Go
\* picks either one; with none ready the caller parks.
query_select ==
    /\ callerPc = "select"
    /\ \/ /\ ctxDone
          /\ callerPc' = "returned"
          /\ callerRes' = [r |-> NoBuf, e |-> ErrCtx]
          /\ ch' = ch
       \/ /\ ch # <<>>
          /\ callerPc' = "returned"
          /\ callerRes' = Head(ch)
          /\ ch' = Tail(ch)
       \/ /\ ~ctxDone /\ ch = <<>>
          /\ callerPc' = "parked"
          /\ UNCHANGED <<callerRes, ch>>
    /\ UNCHANGED <<config, client, cursor, expression, ctxDone, gpc, attempts,
                   res, localVars, request, hist>>

\* Variant: line 286 without the err == nil disjunct.
StopRetrying_NoNilCheck(att, err) ==
    att = retryCount \/ retryCallback(err) = FALSE

\* Variant: line 286 looks at the retry budget only.
StopRetrying_OnlyBudget(att, err) == att = retryCount

\* Line 286: the condition that ends the retry loop.
StopRetrying(att, err) ==
    att = retryCount \/ err = NoErr \/ retryCallback(err) = FALSE

\* Variant: line 286 with retryCallback(err) == false as the first disjunct.
CallbackConsulted_First(att, err) == TRUE

\* Whether line 286 gets as far as calling retryCallback (|| short-circuits).
CallbackConsulted(att, err) == ~(att = retryCount) /\ ~(err = NoErr)

\* Variant: lines 287-291 always send responseResult{r: newResponse(buf)}.
responseResult_ErrorDropped(buf, err) == [r |-> buf, e |-> NoErr]

\* Lines 287-291: the value sent on ch.
responseResult(buf, err) ==
    IF err = NoErr THEN [r |-> buf, e |-> NoErr] ELSE [r |-> NoBuf, e |-> err]

\* Variant: line 278 makes an unbuffered channel.
ChanCap_Unbuffered == 1 - 1

\* Line 278: make(chan responseResult, 1)
ChanCap == 1

\* Lines 286-294, after getFromRangeServer returned: hand the result off and
\* return, or count the attempt.  The send proceeds when the buffer has room
\* or a caller parked in the select receives the value directly.
query_loop ==
    /\ gpc = "ret"
    /\ LET consulted == CallbackConsulted(attempts, res.err)
           h1 == [hist EXCEPT !.callbackCalls = IF consulted THEN @ + 1 ELSE @,
                              !.cbBad = @ \/ (consulted /\ (res.err = NoErr
                                                  \/ attempts = retryCount))]
       IN IF StopRetrying(attempts, res.err)
            THEN /\ Len(ch) < ChanCap \/ callerPc = "parked"
                 /\ gpc' = "done"
                 /\ IF callerPc = "parked"
                      THEN /\ callerPc' = "returned"
                           /\ callerRes' = responseResult(res.buf, res.err)
                           /\ ch' = ch
                      ELSE /\ ch' = Append(ch, responseResult(res.buf, res.err))
                           /\ UNCHANGED callerVars
                 /\ hist' = [h1 EXCEPT !.sent =
                                Append(@, responseResult(res.buf, res.err))]
                 /\ UNCHANGED attempts
            ELSE /\ attempts' = attempts + 1
                 /\ gpc' = IF retryPause > 0 THEN "sleep" ELSE "call"
                 /\ hist' = h1
                 /\ UNCHANGED <<ch, callerVars>>
    /\ UNCHANGED <<config, client, cursor, expression, ctxDone, res, localVars,
                   request>>

\* Lines 295-297: time.Sleep(c.retryPause) returns.
query_sleep ==
    /\ gpc = "sleep"
    /\ gpc' = "call"
    /\ hist' = [hist EXCEPT !.pauses = @ + 1]
    /\ UNCHANGED <<config, client, cursor, expression, ctxDone, callerVars, ch,
                   attempts, res, localVars, request>>

(* ------------------------ getFromRangeServer -------------------------- *)
\* len(url.QueryEscape(expression)): escaped bytes become %XX.
QueryEscapeLen(e) == e.plain + 3 * e.special

\* len(uri), uri = "http://" + server + "/range/list" + "?" + escaped
URILen(server, e) == 7 + AddrLen(server) + 11 + 1 + QueryEscapeLen(e)

\* Variant: line 329 with >= instead of >.
InitialMethod_AtThreshold(len) ==
    IF len >= defaultQueryLengthThreshold THEN MethodPut ELSE MethodGet

\* Lines 328-333.
InitialMethod(len) ==
    IF len > defaultQueryLengthThreshold THEN MethodPut ELSE MethodGet

\* Variant: line 336 with three tries.
InitialTries_Three == 2 + 1

\* Line 336: triesRemaining := 2
InitialTries == 2

\* Variant: method outlives the invocation and is chosen only once per query.
getFromRangeServer_begin_KeepMethod ==
    /\ gpc = "call"
    /\ LET server == NextAddress(cursor)
       IN /\ endpoint' = server
          /\ uriLen' = URILen(server, expression)
          /\ method' = IF method = ""
                          THEN InitialMethod(URILen(server, expression))
                          ELSE method
          /\ hist' = [hist EXCEPT !.nextCalls = @ + 1,
                                  !.invocations = @ + 1,
                                  !.tries = <<>>,
                                  !.answers = <<>>,
                                  !.servers = Append(@, server),
                                  !.prevMethod = method,
                                  !.open = 0]
    /\ cursor' = NextCursor(cursor)
    /\ triesRemaining' = InitialTries
    /\ herr' = NoErr
    /\ res' = NoRes
    /\ gpc' = "check"
    /\ UNCHANGED <<config, client, expression, ctxDone, callerVars, ch,
                   attempts, request>>

\* Lines 321-336: one servers.Next() call, the uri and the first method.
getFromRangeServer_begin ==
    /\ gpc = "call"
    /\ LET server == NextAddress(cursor)
       IN /\ endpoint' = server
          /\ uriLen' = URILen(server, expression)
          /\ method' = InitialMethod(URILen(server, expression))
          /\ hist' = [hist EXCEPT !.nextCalls = @ + 1,
                                  !.invocations = @ + 1,
                                  !.tries = <<>>,
                                  !.answers = <<>>,
                                  !.servers = Append(@, server),
                                  !.prevMethod = method,
                                  !.open = 0]
    /\ cursor' = NextCursor(cursor)
    /\ triesRemaining' = InitialTries
    /\ herr' = NoErr
    /\ res' = NoRes
    /\ gpc' = "check"
    /\ UNCHANGED <<config, client, expression, ctxDone, callerVars, ch,
                   attempts, request>>

\* Variant: the select of lines 337-342 is missing.
getFromRangeServer_check_NoSelect ==
    /\ gpc = "check"
    /\ gpc' = "send"
    /\ UNCHANGED <<config, client, cursor, expression, ctxDone, callerVars, ch,
                   attempts, res, localVars, request, hist>>

\* Lines 337-342: the cancellation check at the head of each try.
getFromRangeServer_check ==
    /\ gpc = "check"
    /\ IF ctxDone
         THEN /\ res' = [buf |-> NoBuf, err |-> ErrCtx]
              /\ gpc' = "ret"
              /\ hist' = [hist EXCEPT !.cancelReturned = TRUE]
         ELSE /\ gpc' = "send"
              /\ UNCHANGED <<res, hist>>
    /\ UNCHANGED <<config, client, cursor, expression, ctxDone, callerVars, ch,
                   attempts, localVars, request>>

\* getQuery / putQuery up to the call of httpClient.Do: GET goes to the uri,
\* PUT to the endpoint with the expression in the body.
getQuery(server) == [method |-> MethodGet, server |-> server, len |-> uriLen]
putQuery(server) == [method |-> MethodPut, server |-> server,
                     len |-> uriLen - 1 - QueryEscapeLen(expression)]

\* Variant: the first request is started without waiting for its response.
getFromRangeServer_send_NoWait ==
    /\ gpc = "send"
    /\ method \in {MethodGet, MethodPut}
    /\ LET rq == IF method = MethodGet THEN getQuery(endpoint)
                                       ELSE putQuery(endpoint)
       IN /\ request' = <<rq>>
          /\ hist' = [hist EXCEPT !.requests = @ + 1,
                                  !.tries = Append(@, rq),
                                  !.afterCancel = IF ctxDone THEN @ + 1 ELSE @]
    /\ gpc' = IF hist.tries = <<>> THEN "send" ELSE "inflight"
    /\ UNCHANGED <<config, client, cursor, expression, ctxDone, callerVars, ch,
                   attempts, res, localVars>>

\* Lines 344-351: send with the current method.
getFromRangeServer_send ==
    /\ gpc = "send"
    /\ method \in {MethodGet, MethodPut}
    /\ LET rq == IF method = MethodGet THEN getQuery(endpoint)
                                       ELSE putQuery(endpoint)
       IN /\ request' = <<rq>>
          /\ hist' = [hist EXCEPT !.requests = @ + 1,
                                  !.tries = Append(@, rq),
                                  !.afterCancel = IF ctxDone THEN @ + 1 ELSE @]
    /\ gpc' = "inflight"
    /\ UNCHANGED <<config, client, cursor, expression, ctxDone, callerVars, ch,
                   attempts, res, localVars>>

\* readAndClose: the read error wins over the close error.
readAndClose(resp) ==
    IF resp.rerr THEN [buf |-> NoBuf, err |-> ErrRead, closed |-> TRUE]
    ELSE IF resp.cerr THEN [buf |-> NoBuf, err |-> ErrClose, closed |-> TRUE]
    ELSE [buf |-> resp.body, err |-> NoErr, closed |-> TRUE]

\* Variant: lines 363-365 (the RangeException header check) are missing.
HandleResponse_NoHeaderCheck(m, resp) ==
    CASE resp.status = StatusOK ->
           [done |-> TRUE, buf |-> readAndClose(resp).buf,
            err |-> readAndClose(resp).err, method |-> m, herr |-> NoErr,
                   closed |-> readAndClose(resp).closed]
      [] resp.status = StatusRequestURITooLong ->
           [done |-> FALSE, buf |-> NoBuf, err |-> NoErr, method |-> MethodPut,
            herr |-> ErrStatusNotOK(resp.status), closed |-> FALSE]
      [] resp.status = StatusMethodNotAllowed ->
           [done |-> FALSE, buf |-> NoBuf, err |-> NoErr, method |-> MethodGet,
            herr |-> ErrStatusNotOK(resp.status), closed |-> FALSE]
      [] OTHER ->
           [done |-> FALSE, buf |-> NoBuf, err |-> NoErr, method |-> m,
            herr |-> ErrStatusNotOK(resp.status), closed |-> FALSE]

\* Lines 361-387: the switch on response.StatusCode.  done: the function
\* returns (buf, err); otherwise the loop goes on with method and herr.
HandleResponse(m, resp) ==
    CASE resp.status = StatusOK ->
           IF resp.exception # ""
             THEN [done |-> TRUE, buf |-> NoBuf,
                   err |-> ErrRangeException(resp.exception),
                   method |-> m, herr |-> NoErr, closed |-> FALSE]
             ELSE [done |-> TRUE, buf |-> readAndClose(resp).buf,
                   err |-> readAndClose(resp).err, method |-> m, herr |-> NoErr,
                   closed |-> readAndClose(resp).closed]
      [] resp.status = StatusRequestURITooLong ->
           [done |-> FALSE, buf |-> NoBuf, err |-> NoErr, method |-> MethodPut,
            herr |-> ErrStatusNotOK(resp.status), closed |-> FALSE]
      [] resp.status = StatusMethodNotAllowed ->
           [done |-> FALSE, buf |-> NoBuf, err |-> NoErr, method |-> MethodGet,
            herr |-> ErrStatusNotOK(resp.status), closed |-> FALSE]
      [] OTHER ->
           [done |-> FALSE, buf |-> NoBuf, err |-> NoErr, method |-> m,
            herr |-> ErrStatusNotOK(resp.status), closed |-> FALSE]

\* The observation record after httpClient.Do returned d.  A response body
\* stays open unless the status switch closed it.
Observed(d) ==
    [hist EXCEPT !.responses = @ + 1,
                 !.answers = Append(@, d),
                 !.all500 = @ /\ d.err = NoErr
                              /\ d.response.status = StatusInternalServerError,
                 !.open = IF d.err = NoErr
                             /\ ~HandleResponse(method, d.response).closed
                            THEN @ + 1 ELSE @]

\* Variant: on a transport error line 355 returns herr when one is set.
Do_return_RemembersStatus(d) ==
    /\ gpc = "inflight"
    /\ request' = <<>>
    /\ hist' = Observed(d)
    /\ IF d.err # NoErr
         THEN /\ res' = [buf |-> NoBuf,
                          err |-> IF herr # NoErr THEN herr ELSE d.err]
              /\ gpc' = "ret"
              /\ UNCHANGED localVars
         ELSE LET h == HandleResponse(method, d.response)
              IN IF h.done
                   THEN /\ res' = [buf |-> h.buf, err |-> h.err]
                        /\ gpc' = "ret"
                        /\ UNCHANGED localVars
                   ELSE /\ method' = h.method
                        /\ herr' = h.herr
                        /\ triesRemaining' = triesRemaining - 1
                        /\ UNCHANGED <<endpoint, uriLen>>
                        /\ IF triesRemaining - 1 > 0
                             THEN gpc' = "check" /\ res' = res
                             ELSE gpc' = "ret"
                                  /\ res' = [buf |-> NoBuf, err |-> h.herr]
    /\ UNCHANGED <<config, client, cursor, expression, ctxDone, callerVars, ch,
                   attempts>>

\* Variant: herr keeps the first StatusNotOK instead of the last.
Do_return_FirstStatus(d) ==
    /\ gpc = "inflight"
    /\ request' = <<>>
    /\ hist' = Observed(d)
    /\ IF d.err # NoErr
         THEN /\ res' = [buf |-> NoBuf, err |-> d.err]
              /\ gpc' = "ret"
              /\ UNCHANGED localVars
         ELSE LET h == HandleResponse(method, d.response)
              IN IF h.done
                   THEN /\ res' = [buf |-> h.buf, err |-> h.err]
                        /\ gpc' = "ret"
                        /\ UNCHANGED localVars
                   ELSE /\ method' = h.method
                        /\ herr' = IF herr # NoErr THEN herr ELSE h.herr
                        /\ triesRemaining' = triesRemaining - 1
                        /\ UNCHANGED <<endpoint, uriLen>>
                        /\ IF triesRemaining - 1 > 0
                             THEN gpc' = "check" /\ res' = res
                             ELSE gpc' = "ret"
                                  /\ res' = [buf |-> NoBuf, err |->
                                       IF herr # NoErr THEN herr ELSE h.herr]
    /\ UNCHANGED <<config, client, cursor, expression, ctxDone, callerVars, ch,
                   attempts>>

\* httpClient.Do returns d; lines 352-390 run up to the next loop head or
\* the return.
Do_return(d) ==
    /\ gpc = "inflight"
    /\ request' = <<>>
    /\ hist' = Observed(d)
    /\ IF d.err # NoErr
         THEN /\ res' = [buf |-> NoBuf, err |-> d.err]
              /\ gpc' = "ret"
              /\ UNCHANGED localVars
         ELSE LET h == HandleResponse(method, d.response)
              IN IF h.done
                   THEN /\ res' = [buf |-> h.buf, err |-> h.err]
                        /\ gpc' = "ret"
                        /\ UNCHANGED localVars
                   ELSE /\ method' = h.method
                        /\ herr' = h.herr
                        /\ triesRemaining' = triesRemaining - 1
                        /\ UNCHANGED <<endpoint, uriLen>>
                        /\ IF triesRemaining - 1 > 0
                             THEN gpc' = "check" /\ res' = res
                             ELSE gpc' = "ret"
                                  /\ res' = [buf |-> NoBuf, err |-> h.herr]
    /\ UNCHANGED <<config, client, cursor, expression, ctxDone, callerVars, ch,
                   attempts>>

Transport == \E d \in DoResults : Do_return(d)

Next ==
    \/ NewClient
    \/ query_spawn
    \/ query_select
    \/ query_loop
    \/ query_sleep
    \/ getFromRangeServer_begin
    \/ getFromRangeServer_check
    \/ getFromRangeServer_send
    \/ Transport
    \/ Cancel
    \/ OtherNext

Spec == Init /\ [][Next]_vars

\* The goroutine and the transport keep running: every step of the goroutine
\* that is enabled is eventually taken, and every httpClient.Do returns.
\* Termination does not depend on the expression or on the server list, so
\* the fair runs start from one server and one expression.
FairInit ==
    /\ Init
    /\ config.Servers = <<"r1:80">>
    /\ config.RetryCount >= 0
    /\ config.RetryPause >= 0
    /\ expression = [plain |-> 4, special |-> 0]

FairSpec ==
    /\ FairInit
    /\ [][Next]_vars
    /\ WF_vars(getFromRangeServer_begin)
    /\ WF_vars(getFromRangeServer_check)
    /\ WF_vars(getFromRangeServer_send)
    /\ WF_vars(Transport)
    /\ WF_vars(query_loop)
    /\ WF_vars(query_sleep)

TypeOK ==
    /\ attempts \in 0 .. MaxRetryCount + 1
    /\ Len(ch) <= 1
    /\ triesRemaining \in 0 .. InitialTries
(* ====================== properties of the claims ====================== *)
T == defaultQueryLengthThreshold

\* The current (or last) getFromRangeServer invocation has returned.
Returned == gpc \in {"ret", "done"}

IsResponse(d, status) == d.err = NoErr /\ d.response.status = status

(* C1: with a retry policy that retries StatusNotOK and a backend that
   answers every request with 500, a finished query has made exactly
   retryCount+1 attempts (network round trips), one per Next() call, and
   returns StatusNotOK 500. *)
C1_Claim ==
    ( /\ callerPc = "returned"
      /\ gpc = "done"
      /\ ~ctxDone
      /\ hist.responses > 0
      /\ hist.all500
      /\ retryCallback(ErrStatusNotOK(StatusInternalServerError)) )
    => /\ hist.requests = retryCount + 1
       /\ hist.requests = hist.nextCalls
       /\ callerRes.e = ErrStatusNotOK(StatusInternalServerError)

(* C2: when the context concludes while a network attempt is outstanding,
   query returns the context's error and never the response, also when the
   backend's 200 response arrives and is handed off after the cancellation
   (stated for the runs whose last transport call returned a 200). *)
C2_Claim ==
    ( /\ callerPc = "returned"
      /\ hist.cancelInFlight
      /\ hist.answers # <<>>
      /\ hist.answers[Len(hist.answers)] \in
           [err : {NoErr},
            response : [status : {StatusOK}, exception : {""}, body : Bodies,
                        rerr : {FALSE}, cerr : {FALSE}]] )
    => callerRes = [r |-> NoBuf, e |-> ErrCtx]

(* C3: GET answered 414, then PUT answered 200 without RangeException header
   (body b delivered) in one invocation: the query's result is b, and the
   invocation costs no retry: attempts is not incremented, retryCallback not
   consulted, no pause taken, Next() not called again. *)
C3_Pattern ==
    /\ Len(hist.answers) = 2
    /\ hist.tries[1].method = MethodGet
    /\ IsResponse(hist.answers[1], StatusRequestURITooLong)
    /\ hist.tries[2].method = MethodPut
    /\ IsResponse(hist.answers[2], StatusOK)
    /\ hist.answers[2].response.exception = ""
    /\ ~hist.answers[2].response.rerr
    /\ ~hist.answers[2].response.cerr

C3_Body == hist.answers[2].response.body

C3_NoRetryConsumed ==
    C3_Pattern =>
      /\ Returned
      /\ res = [buf |-> C3_Body, err |-> NoErr]
      /\ attempts = hist.invocations - 1
      /\ hist.callbackCalls = hist.invocations - 1
      /\ hist.pauses = (IF retryPause > 0 THEN hist.invocations - 1 ELSE 0)
      /\ hist.nextCalls = hist.invocations
      /\ gpc = "done" => hist.sent = <<[r |-> C3_Body, e |-> NoErr]>>
      /\ (callerPc = "returned" /\ ~ctxDone)
            => callerRes = [r |-> C3_Body, e |-> NoErr]

C3_Witness ==
    /\ C3_Pattern
    /\ callerPc = "returned"
    /\ callerRes = [r |-> "a b c", e |-> NoErr]
    /\ retryCount > 0
    /\ hist.servers = <<"r22:80">>

(* C4: a 200 response with a non-empty RangeException header makes the
   invocation fail with RangeException carrying that header's message,
   whatever the body; under the default retry policy that attempt is the
   last one and its error is the query's result. *)
C4_Answered ==
    /\ hist.answers # <<>>
    /\ IsResponse(hist.answers[Len(hist.answers)], StatusOK)
    /\ hist.answers[Len(hist.answers)].response.exception # ""

C4_Error ==
    ErrRangeException(hist.answers[Len(hist.answers)].response.exception)

C4_RangeExceptionNotRetried ==
    C4_Answered =>
      /\ Len(hist.tries) = Len(hist.answers)
      /\ res = [buf |-> NoBuf, err |-> C4_Error]
      /\ config.RetryCallback = "default" =>
           /\ Returned
           /\ attempts = hist.invocations - 1
           /\ gpc = "done" => hist.sent = <<[r |-> NoBuf, e |-> C4_Error]>>
           /\ (callerPc = "returned" /\ ~ctxDone)
                 => callerRes = [r |-> NoBuf, e |-> C4_Error]

C4_Witness ==
    /\ C4_Answered
    /\ config.RetryCallback = "default"
    /\ retryCount >= 1
    /\ attempts < retryCount
    /\ callerPc = "returned"
    /\ callerRes = [r |-> NoBuf, e |-> ErrRangeException("bad syntax")]
    /\ hist.answers[Len(hist.answers)].response.body = "a b c"

(* C5 (as claimed): a query whose GET URI exceeds 4096 is sent with PUT on
   the first try of every invocation and never with GET; otherwise it is
   sent with GET on the first try. *)
C5_Claim ==
    hist.tries # <<>> =>
      /\ uriLen > T =>
           \A i \in 1 .. Len(hist.tries) : hist.tries[i].method = MethodPut
      /\ uriLen <= T => hist.tries[1].method = MethodGet

(* C5 (amended): a query whose GET URI exceeds 4096 is sent with PUT on the
   first try of every invocation and with GET only on the second try of an
   invocation whose first (PUT) try was answered 405; a query whose GET URI
   is at most 4096 is sent with GET on the first try. *)
C5_FirstTryMethod ==
    hist.tries # <<>> =>
      /\ uriLen > T =>
           /\ hist.tries[1].method = MethodPut
           /\ \A i \in 1 .. Len(hist.tries) :
                hist.tries[i].method = MethodGet =>
                  /\ i = 2
                  /\ IsResponse(hist.answers[1], StatusMethodNotAllowed)
      /\ uriLen <= T => hist.tries[1].method = MethodGet

C5_Witness ==
    /\ uriLen = T + 1
    /\ Len(hist.tries) = 2
    /\ hist.tries[2].method = MethodGet
    /\ hist.invocations = 2

(* C6: a response whose status is neither 200, 405 nor 414 makes the
   invocation fail with StatusNotOK of that status without a second request
   to that server (stated for a context that has not concluded). *)
C6_Claim ==
    ( /\ ~ctxDone
      /\ hist.answers # <<>>
      /\ hist.answers[1].err = NoErr
      /\ hist.answers[1].response.status \notin
           {StatusOK, StatusMethodNotAllowed, StatusRequestURITooLong} )
    => /\ Len(hist.tries) = 1
       /\ Returned => res.err = ErrStatusNotOK(hist.answers[1].response.status)

(* C7: once an invocation has returned the context's error, the retry loop
   makes no further iteration: no invocation, Next() call or pause. *)
C7_Claim ==
    [][hist.cancelReturned =>
         /\ hist'.invocations = hist.invocations
         /\ hist'.nextCalls = hist.nextCalls
         /\ hist'.pauses = hist.pauses]_vars

(* C8: a query that fails while the context has not concluded returns
   exactly the error of its last getFromRangeServer invocation; query never
   returns a nil error with a nil result. *)
C8_LastErrorVerbatim ==
    /\ (callerPc = "returned" /\ ~ctxDone /\ callerRes.e # NoErr) =>
         /\ gpc = "done"
         /\ callerRes.e = res.err
         /\ callerRes.r = NoBuf
         /\ hist.sent = <<callerRes>>
    /\ callerPc = "returned" => ~(callerRes.r = NoBuf /\ callerRes.e = NoErr)

C8_Witness ==
    /\ callerPc = "returned"
    /\ ~ctxDone
    /\ hist.invocations = 3
    /\ callerRes.e = ErrTransport
    /\ herr = ErrStatusNotOK(StatusMethodNotAllowed)

(* C9: NewClient fails exactly when the server list is empty, the retry
   count is negative or the retry pause is negative. *)
C9_ConstructionFailsIff ==
    client # "none" =>
      ( client = "error" <=>
          \/ Len(config.Servers) = 0
          \/ config.RetryCount < 0
          \/ config.RetryPause < 0 )

C9_Witness ==
    /\ client = "error"
    /\ Len(config.Servers) > 0
    /\ config.RetryCount >= 0
    /\ config.RetryPause < 0

(* C10: every invocation calls Next() exactly once (also when it aborts on
   cancellation before sending), issues at most 2 transport calls, all to
   the address that Next() call returned; the fallback try does not advance
   the rotation cursor. *)
C10_OneNextTwoCalls ==
    client = "ok" =>
      /\ hist.nextCalls = hist.invocations
      /\ Len(hist.servers) = hist.invocations
      /\ cursor = (hist.invocations + hist.otherNext) % Len(config.Servers)
      /\ Len(hist.tries) <= 2
      /\ \A i \in 1 .. Len(hist.tries) :
           hist.tries[i].server = hist.servers[Len(hist.servers)]

C10_Witness ==
    /\ Len(hist.tries) = 2
    /\ IsResponse(hist.answers[1], StatusRequestURITooLong)
    /\ hist.invocations = 2
    /\ hist.otherNext = 1
    /\ Len(config.Servers) = 2
    /\ hist.cancelReturned = FALSE
    /\ gpc = "inflight"

C10_WitnessCancel ==
    /\ hist.cancelReturned
    /\ hist.tries = <<>>
    /\ hist.invocations = 2

(* C11: within one invocation a second try uses the other method than the
   first; a 414 answered to a PUT or a 405 answered to a GET does not cause a
   second try with the same method (stated for first answers 405 and 414). *)
C11_Claim ==
    ( /\ Len(hist.tries) = 2
      /\ hist.answers[1].err = NoErr
      /\ hist.answers[1].response.status \in
           {StatusMethodNotAllowed, StatusRequestURITooLong} )
    => hist.tries[2].method # hist.tries[1].method

(* C12 (as claimed): the method is set to its initial value only at the
   start of the query, so the method an invocation ended with is the method
   of the first try of the next invocation of the same query. *)
C12_Claim ==
    (hist.tries # <<>> /\ hist.prevMethod # "")
      => hist.tries[1].method = hist.prevMethod

(* C12 (amended): the method is scoped to one getFromRangeServer invocation:
   every invocation starts from the initial value computed from the URI
   length for the server it selected, whatever method the previous
   invocation of the query ended with. *)
C12_MethodPerInvocation ==
    /\ (gpc = "check" /\ triesRemaining = InitialTries)
         => method = InitialMethod(uriLen)
    /\ hist.tries # <<>> =>
         hist.tries[1].method =
           InitialMethod(URILen(hist.servers[Len(hist.servers)], expression))

C12_Witness ==
    /\ hist.invocations = 2
    /\ hist.prevMethod = MethodPut
    /\ hist.tries # <<>>
    /\ hist.tries[1].method = MethodGet
    /\ hist.servers = <<"r1:80", "r1:80">>

(* C13 (as claimed): once the context has concluded no transport call is
   started for the query. *)
C13_Claim == hist.afterCancel = 0

(* C13 (amended): every try checks cancellation before sending and returns
   the context's error instead of calling the transport when the check finds
   the context concluded; the only transport call started after the context
   concluded is the one of a try whose check had already passed. *)
C13_NoSendAfterFailedCheck ==
    /\ hist.afterCancel <= (IF hist.cancelInWindow THEN 1 ELSE 0)
    /\ hist.cancelReturned => ctxDone
    /\ (hist.cancelReturned /\ Returned) =>
         /\ res = [buf |-> NoBuf, err |-> ErrCtx]
         /\ Len(hist.tries) = Len(hist.answers)
         /\ Len(hist.tries) < InitialTries

C13_Witness ==
    /\ hist.cancelReturned
    /\ gpc = "ret"
    /\ Len(hist.tries) = 1
    /\ hist.afterCancel = 0
    /\ IsResponse(hist.answers[1], StatusRequestURITooLong)

(* C14: a transport failure on either try ends the invocation at once with
   the transport's error: no further try, and not a StatusNotOK kept from
   the first try. *)
C14_TransportErrorImmediate ==
    \A i \in 1 .. Len(hist.answers) :
      hist.answers[i].err # NoErr =>
        /\ i = Len(hist.tries)
        /\ gpc \notin {"check", "send", "inflight"}
        /\ res = [buf |-> NoBuf, err |-> hist.answers[i].err]

C14_Witness ==
    /\ Len(hist.answers) = 2
    /\ IsResponse(hist.answers[1], StatusMethodNotAllowed)
    /\ hist.answers[2].err = ErrTransport
    /\ herr = ErrStatusNotOK(StatusMethodNotAllowed)
    /\ gpc = "done"

(* C15: when both tries end with a non-200 response the invocation returns
   StatusNotOK of the second response; a StatusNotOK reaches the retry loop
   only after two tries, carrying the status of the second. *)
C15_LastStatusReturned ==
    /\ ( /\ Len(hist.answers) = 2
         /\ hist.answers[1].err = NoErr
         /\ hist.answers[1].response.status # StatusOK
         /\ hist.answers[2].err = NoErr
         /\ hist.answers[2].response.status # StatusOK )
       => res = [buf |-> NoBuf,
                 err |-> ErrStatusNotOK(hist.answers[2].response.status)]
    /\ res.err.kind = "StatusNotOK" =>
         /\ Len(hist.answers) = 2
         /\ IsResponse(hist.answers[2], res.err.code)

C15_Witness ==
    /\ Len(hist.answers) = 2
    /\ IsResponse(hist.answers[1], StatusRequestURITooLong)
    /\ IsResponse(hist.answers[2], StatusInternalServerError)
    /\ res.err = ErrStatusNotOK(StatusInternalServerError)
    /\ callerRes.e = ErrStatusNotOK(StatusInternalServerError)

(* C16: the attempts of a query are sequential: at most one transport call
   is outstanding, and an invocation starts only when no call is. *)
C16_Sequential ==
    /\ hist.requests - hist.responses \in {0, 1}
    /\ hist.requests - hist.responses = Len(request)
    /\ Len(request) = 1 <=> gpc = "inflight"
    /\ Len(hist.tries) - Len(hist.answers) = Len(request)
    /\ hist.invocations <= attempts + 1

C16_Witness ==
    /\ gpc = "inflight"
    /\ hist.requests = 4
    /\ hist.responses = 3
    /\ hist.invocations = 2

(* C17: every response the invocation received has its body closed by the
   time the invocation returns, whatever the status and headers. *)
C17_Claim == Returned => hist.open = 0

(* C18: when an invocation succeeds the retry loop hands off its payload and
   ends: no further invocation, Next() call, pause or attempt follows,
   whatever budget remains. *)
C18_Succeeded == res.err = NoErr /\ res.buf # NoBuf

C18_SuccessEndsLoop ==
    C18_Succeeded =>
      /\ Returned
      /\ hist.invocations = attempts + 1
      /\ hist.nextCalls = attempts + 1
      /\ hist.pauses = (IF retryPause > 0 THEN attempts ELSE 0)
      /\ gpc = "done" => /\ hist.sent = <<[r |-> res.buf, e |-> NoErr]>>
                         /\ attempts < retryCount => hist.callbackCalls = attempts

C18_Witness ==
    /\ C18_Succeeded
    /\ gpc = "done"
    /\ attempts = 1
    /\ retryCount = 2
    /\ retryPause > 0
    /\ config.RetryCallback = "always"
    /\ Len(hist.answers) = 1

(* C19: provided every transport call returns, the goroutine of a query
   ends after at most retryCount+1 invocations with exactly one value sent
   on the one-slot channel; the send does not wait for a reader. *)
C19_TaskTerminates ==
    /\ [](client = "ok" =>
            /\ hist.invocations <= retryCount + 1
            /\ Len(hist.sent) <= 1
            /\ Len(ch) <= ChanCap
            /\ gpc = "done" <=> Len(hist.sent) = 1)
    /\ (gpc = "call") ~> (gpc = "done")

C19_Witness ==
    /\ gpc = "done"
    /\ callerPc = "returned"
    /\ callerRes.e = ErrCtx
    /\ Len(ch) = 1
    /\ retryCount = 2
    /\ hist.invocations = retryCount + 1

(* C20: retryCallback is consulted only for a failed attempt with budget
   left: never with a nil error, never when attempts = retryCount, at most
   retryCount times per query, never when retryCount = 0; attempts stays in
   0..retryCount. *)
C20_CallbackOnlyWithBudget ==
    client = "ok" =>
      /\ attempts \in 0 .. retryCount
      /\ ~hist.cbBad
      /\ hist.callbackCalls <= retryCount
      /\ hist.callbackCalls <= attempts + 1
      /\ hist.callbackCalls >= attempts

C20_Witness ==
    /\ gpc = "done"
    /\ retryCount = 2
    /\ attempts = 2
    /\ hist.callbackCalls = 2
    /\ res.err # NoErr
====
